---- MODULE Spec2Model ----
(***************************************************************************)
(* binarydump.c as a state machine: process_args, main, binary_dump and    *)
(* print_byte.  Strings are sequences of one-character strings, so that    *)
(* argument matching on the first letter, atoi, "%X" and the bit printing   *)
(* are computed the way the C code computes them.                          *)
(***************************************************************************)
EXTENDS Integers, Sequences, FiniteSets, TLC

VARIABLES
    argc,               \* main's argc
    i,                  \* process_args: loop index into argv
    arg,                \* process_args: char *arg, a pointer into the argument looked at
    narg,               \* process_args: argv[i] handed to atoi by the -n branch
    bytes_per_line,     \* global, line 39
    formatting_enabled, \* global, line 40
    filename,           \* global, line 41
    pc,                 \* where the process is: "args", "main", "dump", "exited", "crashed"
    exit_code,          \* exit status once pc = "exited"
    out,                \* stdout, one element per character (usage text: one per line)
    err,                \* stderr, one element per message
    file,               \* main's FILE *file: "unset", "stdin", "file", "closed"
    stream,             \* the bytes of the input stream
    faultAt,            \* {p} when the stream's reads fail from position p on, {} when none does
    pos,                \* the stream's file position
    ferr,               \* the stream's error indicator
    offset              \* binary_dump: int offset

vars == <<argc, i, arg, narg, bytes_per_line, formatting_enabled, filename, pc,
          exit_code, out, err, file, stream, faultAt, pos, ferr, offset>>

argVars == <<argc, i, arg, narg>>
cfgVars == <<bytes_per_line, formatting_enabled, filename>>
ioVars == <<file, stream, faultAt, pos, ferr, offset>>

(***************************************************************************)
(* Bounds.                                                                 *)
(***************************************************************************)
MaxArgs == 4        \* at most this many command-line arguments after argv[0]
MaxLen == 17        \* at most this many bytes in the input stream

NULL == <<>>
EXIT_SUCCESS == "EXIT_SUCCESS"
EXIT_FAILURE == "EXIT_FAILURE"
RUNNING == "running"
\* char *arg: the string pointed into and the (1-based) position in it
NoArg == [s |-> NULL, k |-> 1]

Min(a, b) == IF a < b THEN a ELSE b

(***************************************************************************)
(* The inputs: argument strings and input streams.                         *)
(***************************************************************************)
ArgStrings ==
    { <<"-", "n">>, <<"-", "r">>, <<"-", "h">>,
      <<"-", "r", "a", "w">>, <<"-", "h", "e", "l", "p">>,
      <<"-", "r", "u", "b", "b", "i", "s", "h">>, <<"-", "n", "x">>,
      <<"-", "h", "e", "l", "l", "o">>, <<"-", "x">>, <<"-">>, <<"-", "5">>,
      <<"f">>, <<"2">> }

ValStrings ==
    { <<"2">>, <<"0">>, <<"a", "b", "c">>, <<"-", "5">>, <<"2", "x">>,
      <<" ", "+", "2">>, <<"-", "0">>, <<"-", "r">>, <<"1">> }

\* "hello world " repeated (the bytes of the header's example output), and
\* the bytes 255, 254, ... : neighbouring bytes differ nearly everywhere, so
\* order, loss and duplication show.
HelloWorld == <<104, 101, 108, 108, 111, 32, 119, 111, 114, 108, 100, 32>>
PatternA(n) == HelloWorld[((n - 1) % 12) + 1]
PatternB(n) == (256 - n) % 256
Streams ==
    { [n \in 1..len |-> PatternA(n)] : len \in 0..MaxLen }
    \cup { [n \in 1..len |-> PatternB(n)] : len \in 0..MaxLen }

(***************************************************************************)
(* C library and language helpers.                                         *)
(***************************************************************************)
\* s[n] of a C string (1-based here); the terminating NUL past the end.
CharAt(s, n) == IF n <= Len(s) THEN s[n] ELSE "NUL"

DecDigits == <<"0", "1", "2", "3", "4", "5", "6", "7", "8", "9">>
IsDigit(c) == \E k \in 1..10 : DecDigits[k] = c
DigitVal(c) == (CHOOSE k \in 1..10 : DecDigits[k] = c) - 1
IsSpace(c) == c \in {" ", "\t", "\n", "\r", "\f"}

RECURSIVE AtoiDigits(_, _, _)
AtoiDigits(s, n, acc) ==
    IF IsDigit(CharAt(s, n))
    THEN AtoiDigits(s, n + 1, acc * 10 + DigitVal(CharAt(s, n)))
    ELSE acc

RECURSIVE SkipSpace(_, _)
SkipSpace(s, n) == IF IsSpace(CharAt(s, n)) THEN SkipSpace(s, n + 1) ELSE n

\* atoi: leading white space, an optional sign, then decimal digits up to the
\* first character that is not one; 0 when there are no digits.
atoi(s) ==
    LET n == SkipSpace(s, 1)
    IN  IF CharAt(s, n) = "-" THEN 0 - AtoiDigits(s, n + 1, 0)
        ELSE IF CharAt(s, n) = "+" THEN AtoiDigits(s, n + 1, 0)
        ELSE AtoiDigits(s, n, 0)

\* bitwise AND of two non-negative integers
RECURSIVE BitAnd(_, _)
BitAnd(a, b) ==
    IF a = 0 \/ b = 0 THEN 0
    ELSE (a % 2) * (b % 2) + 2 * BitAnd(a \div 2, b \div 2)

\* byte_buff is char *: a stored byte read back as a (signed) char, then
\* converted to print_byte's unsigned char parameter.
CharOfByte(b) == IF b > 127 THEN b - 256 ELSE b
UCharOf(c) == c % 256

HexDigits == <<"0", "1", "2", "3", "4", "5", "6", "7", "8", "9",
               "A", "B", "C", "D", "E", "F">>

\* printf("%X", n) for n >= 0: upper-case hex digits, no leading zeros
RECURSIVE FormatHex(_)
FormatHex(n) ==
    IF n < 16 THEN <<HexDigits[n + 1]>>
    ELSE FormatHex(n \div 16) \o <<HexDigits[(n % 16) + 1]>>

(***************************************************************************)
(* print_byte, lines 105-118.                                              *)
(***************************************************************************)
\* the do-while loop from `mask` on: print the bit, shift, repeat while non-zero
RECURSIVE PrintByteFrom(_, _)
PrintByteFrom(byte, mask) ==
    LET digit == IF BitAnd(mask, byte) # 0 THEN "1" ELSE "0"
        shifted == mask \div 2
    IN  <<digit>> \o (IF shifted # 0 THEN PrintByteFrom(byte, shifted) ELSE <<>>)

print_byte_lsb_first(byte) ==
    [k \in 1..8 |-> PrintByteFrom(byte, 128)[9 - k]]

print_byte(byte) == PrintByteFrom(byte, 128)

(***************************************************************************)
(* binary_dump, lines 71-103.                                              *)
(***************************************************************************)
\* bytes the stream can still deliver before end-of-stream or the fault
Readable ==
    IF faultAt = {} THEN Len(stream)
    ELSE Min(CHOOSE p \in faultAt : TRUE, Len(stream))
Avail == Readable - pos

\* fread(byte_buff, 1, bytes_per_line, file)
num_bytes_read == Min(bytes_per_line, Avail)

\* the read came up short because the stream faulted, not because it ended
FaultHit == faultAt # {} /\ Avail < bytes_per_line

OffsetPrefixAlways(n) == <<"0", "x">> \o FormatHex(n) \o <<"\t">>

\* lines 81-84
OffsetPrefix(n) ==
    IF formatting_enabled # 0 THEN <<"0", "x">> \o FormatHex(n) \o <<"\t">> ELSE <<>>

\* line 91
Spacing == IF formatting_enabled # 0 THEN <<" ", " ", " ">> ELSE <<>>

\* the for loop of lines 89-92 from index k (1-based) on
RECURSIVE PrintBytesFrom(_, _)
PrintBytesFrom(buf, k) ==
    IF k > Len(buf) THEN <<>>
    ELSE print_byte(UCharOf(CharOfByte(buf[k]))) \o Spacing \o PrintBytesFrom(buf, k + 1)

RECURSIVE PrintBytesJoined(_)
PrintBytesJoined(buf) ==
    IF Len(buf) = 0 THEN <<>>
    ELSE IF Len(buf) = 1 THEN print_byte(UCharOf(CharOfByte(buf[1])))
    ELSE print_byte(UCharOf(CharOfByte(buf[1]))) \o Spacing \o PrintBytesJoined(Tail(buf))

PrintBytes(buf) == PrintBytesFrom(buf, 1)

AdvanceByChunk(off, n) == off + bytes_per_line

\* line 86
Advance(off, n) == off + n

FinalOffsetLineIfData(n) ==
    IF formatting_enabled # 0 /\ n > 0 THEN <<"0", "x">> \o FormatHex(n) \o <<"\n">> ELSE <<>>

\* lines 97-100
FinalOffsetLine(n) ==
    IF formatting_enabled # 0 THEN <<"0", "x">> \o FormatHex(n) \o <<"\n">> ELSE <<>>

\* one iteration of the while loop, lines 79-95
DumpChunk ==
    /\ pc = "dump"
    /\ bytes_per_line >= 1
    /\ num_bytes_read # 0
    /\ LET n == num_bytes_read
           byte_buff == SubSeq(stream, pos + 1, pos + n)
       IN  /\ out' = out \o OffsetPrefix(offset) \o PrintBytes(byte_buff) \o <<"\n">>
           /\ offset' = Advance(offset, n)
           /\ pos' = pos + n
    /\ ferr' = (ferr \/ FaultHit)
    /\ UNCHANGED <<argVars, cfgVars, pc, exit_code, err, file, stream, faultAt>>

\* fread returns 0: the loop ends, lines 97-102, then main's fclose and return 0
DumpEnd ==
    /\ pc = "dump"
    /\ bytes_per_line >= 1
    /\ num_bytes_read = 0
    /\ out' = out \o FinalOffsetLine(offset)
    /\ ferr' = (ferr \/ FaultHit)
    /\ file' = "closed"
    /\ pc' = "exited"
    /\ exit_code' = EXIT_SUCCESS
    /\ UNCHANGED <<argVars, cfgVars, err, stream, faultAt, pos, offset>>

\* bytes_per_line < 0: malloc((size_t) bytes_per_line) cannot be satisfied and
\* fread is handed a null buffer and a huge count.  Undefined behaviour: the
\* process dies storing through the null pointer, or, when the stream has
\* nothing to deliver, fread stores nothing and returns 0.
DumpUndefined ==
    /\ pc = "dump"
    /\ bytes_per_line < 1
    /\ \/ /\ pc' = "crashed"
          /\ UNCHANGED <<out, ferr, file, exit_code>>
       \/ /\ Avail = 0
          /\ out' = out \o FinalOffsetLine(offset)
          /\ ferr' = (ferr \/ faultAt # {})
          /\ file' = "closed"
          /\ pc' = "exited"
          /\ exit_code' = EXIT_SUCCESS
    /\ UNCHANGED <<argVars, cfgVars, err, stream, faultAt, pos, offset>>

(***************************************************************************)
(* main, lines 47-69.                                                      *)
(***************************************************************************)
\* the stream behind the FILE *, and binary_dump's lines 73-74
EnterDump(f) ==
    /\ \E s \in Streams : \E fa \in {{}} \cup {{p} : p \in 0..Len(s)} :
          /\ stream' = s
          /\ faultAt' = fa
    /\ file' = f
    /\ pos' = 0
    /\ offset' = 0
    /\ pc' = "dump"
    /\ UNCHANGED <<argVars, cfgVars, exit_code, out, err, ferr>>

\* lines 53-55
MainStdin ==
    /\ pc = "main"
    /\ filename = NULL
    /\ EnterDump("stdin")

\* lines 56-58, fopen succeeds
MainOpen ==
    /\ pc = "main"
    /\ filename # NULL
    /\ EnterDump("file")

\* lines 59-62, fopen fails
MainOpenFails ==
    /\ pc = "main"
    /\ filename # NULL
    /\ err' = Append(err, <<"error: could not open file %s", filename>>)
    /\ pc' = "exited"
    /\ exit_code' = EXIT_FAILURE
    /\ UNCHANGED <<argVars, cfgVars, out, ioVars>>

(***************************************************************************)
(* process_args, lines 120-185.  argv[i] is read as an input when the loop *)
(* reaches it; argc is fixed from the start.                               *)
(***************************************************************************)
UsageText ==
    << "Usage:\n",
       "   binarydump [FILE] [-n bytesPerLine] [-r | -raw]\n",
       "\n",
       "Raw mode prints nothin' but the bits (address offsets & whitespace will NOT be printed).\n",
       "If no file is specified, standard input will be read.\n" >>

Exit(code) ==
    /\ pc' = "exited"
    /\ exit_code' = code

\* lines 143-151
ArgHelp ==
    /\ pc = "args" /\ i < argc
    /\ \E a \in ArgStrings :
          /\ CharAt(a, 1) = "-"
          /\ CharAt(a, 2) = "h"
          /\ arg' = [s |-> a, k |-> 2]
    /\ out' = out \o UsageText
    /\ Exit(EXIT_SUCCESS)
    /\ UNCHANGED <<argc, i, narg, cfgVars, err, ioVars>>

SetBytesPerLineAlways(tmp) == tmp

\* line 158
SetBytesPerLine(tmp) == IF tmp # 0 THEN tmp ELSE bytes_per_line

\* lines 153-159, a value follows
ArgN ==
    /\ pc = "args" /\ i < argc
    /\ i + 1 < argc
    /\ \E a \in ArgStrings :
          /\ CharAt(a, 1) = "-"
          /\ CharAt(a, 2) # "h"
          /\ CharAt(a, 2) = "n"
          /\ arg' = [s |-> a, k |-> 2]
    /\ \E v \in ValStrings :
          /\ narg' = v
          /\ bytes_per_line' = SetBytesPerLine(atoi(v))
    /\ i' = i + 2
    /\ UNCHANGED <<argc, formatting_enabled, filename, pc, exit_code, out, err, ioVars>>

\* lines 153-156 and 160-164, -n is the last argument
ArgNMissing ==
    /\ pc = "args" /\ i < argc
    /\ ~(i + 1 < argc)
    /\ \E a \in ArgStrings :
          /\ CharAt(a, 1) = "-"
          /\ CharAt(a, 2) # "h"
          /\ CharAt(a, 2) = "n"
          /\ arg' = [s |-> a, k |-> 2]
    /\ i' = i + 1
    /\ err' = Append(err, <<"error: option \"-n\" given, but count not specified.", <<>>>>)
    /\ Exit(EXIT_FAILURE)
    /\ UNCHANGED <<argc, narg, cfgVars, out, ioVars>>

\* lines 166-168
ArgRaw ==
    /\ pc = "args" /\ i < argc
    /\ \E a \in ArgStrings :
          /\ CharAt(a, 1) = "-"
          /\ CharAt(a, 2) \notin {"h", "n"}
          /\ CharAt(a, 2) = "r"
          /\ arg' = [s |-> a, k |-> 2]
    /\ formatting_enabled' = 0
    /\ i' = i + 1
    /\ UNCHANGED <<argc, narg, bytes_per_line, filename, pc, exit_code, out, err, ioVars>>

\* lines 170-173
ArgUnrecognised ==
    /\ pc = "args" /\ i < argc
    /\ \E a \in ArgStrings :
          /\ CharAt(a, 1) = "-"
          /\ CharAt(a, 2) \notin {"h", "n", "r"}
          /\ arg' = [s |-> a, k |-> 2]
          /\ err' = Append(err, <<"error: unrecognised option \"-%s\"", Tail(a)>>)
    /\ Exit(EXIT_FAILURE)
    /\ UNCHANGED <<argc, i, narg, cfgVars, out, ioVars>>

SecondFileWarns(a) ==
    /\ err' = Append(err, <<"error: more than one file specified", <<>>>>)
    /\ filename' = a
    /\ i' = i + 1
    /\ UNCHANGED <<pc, exit_code>>

\* lines 177-179
SecondFile(a) ==
    /\ err' = Append(err, <<"error: more than one file specified", <<>>>>)
    /\ Exit(EXIT_FAILURE)
    /\ UNCHANGED <<filename, i>>

\* lines 175-183
ArgFile ==
    /\ pc = "args" /\ i < argc
    /\ \E a \in ArgStrings :
          /\ CharAt(a, 1) # "-"
          /\ arg' = [s |-> a, k |-> 1]
          /\ IF filename # NULL
             THEN SecondFile(a)
             ELSE /\ filename' = a
                  /\ i' = i + 1
                  /\ UNCHANGED <<pc, exit_code, err>>
    /\ UNCHANGED <<argc, narg, bytes_per_line, formatting_enabled, out, ioVars>>

\* the for loop ends (line 135) and process_args returns to main, line 49
ArgsDone ==
    /\ pc = "args" /\ ~(i < argc)
    /\ pc' = "main"
    /\ arg' = NoArg
    /\ narg' = NULL
    /\ UNCHANGED <<argc, i, cfgVars, exit_code, out, err, ioVars>>

(***************************************************************************)
(* The program.                                                            *)
(***************************************************************************)
Init ==
    /\ argc \in 1..(MaxArgs + 1)
    /\ i = 1
    /\ arg = NoArg
    /\ narg = NULL
    /\ bytes_per_line = 4
    /\ formatting_enabled = 1
    /\ filename = NULL
    /\ pc = "args"
    /\ exit_code = RUNNING
    /\ out = <<>>
    /\ err = <<>>
    /\ file = "unset"
    /\ stream = <<>>
    /\ faultAt = {}
    /\ pos = 0
    /\ ferr = FALSE
    /\ offset = 0

Next ==
    \/ ArgHelp
    \/ ArgN
    \/ ArgNMissing
    \/ ArgRaw
    \/ ArgUnrecognised
    \/ ArgFile
    \/ ArgsDone
    \/ MainStdin
    \/ MainOpen
    \/ MainOpenFails
    \/ DumpChunk
    \/ DumpEnd
    \/ DumpUndefined

Spec == Init /\ [][Next]_vars

(***************************************************************************)
(* print_byte on its own: every byte value, one call.                      *)
(***************************************************************************)
InitByte ==
    /\ argc = 1
    /\ i = 1
    /\ arg = NoArg
    /\ narg = NULL
    /\ bytes_per_line = 4
    /\ formatting_enabled = 1
    /\ filename = NULL
    /\ pc = "print_byte"
    /\ exit_code = RUNNING
    /\ out = <<>>
    /\ err = <<>>
    /\ file = "unset"
    /\ stream \in { <<b>> : b \in 0..255 }
    /\ faultAt = {}
    /\ pos = 0
    /\ ferr = FALSE
    /\ offset = 0

\* line 90 for the one byte of the buffer
CallPrintByte ==
    /\ pc = "print_byte"
    /\ out' = out \o print_byte(UCharOf(CharOfByte(stream[1])))
    /\ pos' = 1
    /\ pc' = "printed"
    /\ UNCHANGED <<argVars, cfgVars, exit_code, err, file, stream, faultAt, ferr, offset>>

NextByte == CallPrintByte

SpecByte == InitByte /\ [][NextByte]_vars

(***************************************************************************)
(* Reading the output back: lines, the offset column, the bit groups.      *)
(***************************************************************************)
\* the lines of the output, without their newlines: the text between
\* consecutive newlines
OutLines ==
    LET nl == {q \in 1..Len(out) : out[q] = "\n"}
        nth(m) == CHOOSE p \in nl : Cardinality({q \in nl : q <= p}) = m
        start(m) == IF m = 1 THEN 1 ELSE nth(m - 1) + 1
    IN  [m \in 1..Cardinality(nl) |-> SubSeq(out, start(m), nth(m) - 1)]

NewlineTerminated == out = <<>> \/ out[Len(out)] = "\n"
Newlines == Cardinality({k \in 1..Len(out) : out[k] = "\n"})

CeilDiv(a, b) == (a + b - 1) \div b

Pow2(n) == IF n = 0 THEN 1 ELSE IF n = 1 THEN 2 ELSE IF n = 2 THEN 4
           ELSE IF n = 3 THEN 8 ELSE IF n = 4 THEN 16 ELSE IF n = 5 THEN 32
           ELSE IF n = 6 THEN 64 ELSE 128

\* bit n (0 = least significant) of b
BitSet(b, n) == (b \div Pow2(n)) % 2 = 1

RECURSIVE ParseBase2(_)
ParseBase2(s) ==
    IF s = <<>> THEN 0
    ELSE 2 * ParseBase2(SubSeq(s, 1, Len(s) - 1)) + (IF s[Len(s)] = "1" THEN 1 ELSE 0)

UpperHex == <<"0", "1", "2", "3", "4", "5", "6", "7", "8", "9",
              "A", "B", "C", "D", "E", "F">>
IsUpperHex(c) == \E k \in 1..16 : UpperHex[k] = c
RECURSIVE ParseHex(_)
ParseHex(s) ==
    IF s = <<>> THEN 0
    ELSE 16 * ParseHex(SubSeq(s, 1, Len(s) - 1))
         + (CHOOSE k \in 1..16 : UpperHex[k] = s[Len(s)]) - 1

\* "0x" followed by at least one upper-case hex digit
IsHexLiteral(s) ==
    /\ Len(s) >= 3
    /\ s[1] = "0" /\ s[2] = "x"
    /\ \A k \in 3..Len(s) : IsUpperHex(s[k])
HexLiteralValue(s) == ParseHex(SubSeq(s, 3, Len(s)))

HasTab(line) == \E k \in 1..Len(line) : line[k] = "\t"
TabAt(line) == CHOOSE k \in 1..Len(line) :
                  line[k] = "\t" /\ \A j \in 1..(k - 1) : line[j] # "\t"
BeforeTab(line) == SubSeq(line, 1, TabAt(line) - 1)
AfterTab(line) == SubSeq(line, TabAt(line) + 1, Len(line))

\* the 8 binary digits of byte b followed by three spaces
ExpectedGroup(b) ==
    [k \in 1..11 |-> IF k > 8 THEN " " ELSE IF BitSet(b, 8 - k) THEN "1" ELSE "0"]

RECURSIVE ExpectedGroups(_, _, _)
ExpectedGroups(s, from, to) ==
    IF from > to THEN <<>>
    ELSE ExpectedGroup(s[from]) \o ExpectedGroups(s, from + 1, to)

\* binary_dump has been entered on a stream with a usable chunk size
Dumping == file # "unset" /\ bytes_per_line >= 1
DumpDone == Dumping /\ pc = "exited"
Formatted == formatting_enabled # 0

\* the data lines printed so far (all lines but the final summary)
DataLines ==
    LET lines == OutLines
    IN  IF DumpDone /\ Formatted /\ lines # <<>>
        THEN SubSeq(lines, 1, Len(lines) - 1)
        ELSE lines

(***************************************************************************)
(* C1: for every byte b, print_byte(b) emits exactly 8 characters, each    *)
(* '0' or '1', character k (0-indexed from the left) is '1' iff bit 7-k of *)
(* b is set, and the 8 characters read as a base-2 number give back b.     *)
(***************************************************************************)
C1_PrintByte ==
    pc = "printed" =>
        /\ Len(out) = 8
        /\ \A k \in 0..7 :
              /\ out[k + 1] \in {"0", "1"}
              /\ (out[k + 1] = "1") <=> BitSet(stream[1], 7 - k)
        /\ ParseBase2(out) = stream[1]

C1_Witness ==
    /\ pc = "printed"
    /\ stream = <<165>>
    /\ out = <<"1", "0", "1", "0", "0", "1", "0", "1">>

GroupsOn(line) == Len(AfterTab(line)) \div 11

C3_OffsetCountsBytes ==
    /\ Dumping => offset = pos
    /\ (Dumping /\ Formatted) =>
          LET lines == DataLines
          IN  \A ln \in 1..Len(lines) :
                  /\ HasTab(lines[ln])
                  /\ IsHexLiteral(BeforeTab(lines[ln]))
                  /\ HexLiteralValue(BeforeTab(lines[ln])) =
                        IF ln = 1 THEN 0
                        ELSE HexLiteralValue(BeforeTab(lines[ln - 1]))
                             + GroupsOn(lines[ln - 1])
    /\ (DumpDone /\ Formatted) =>
          LET lines == OutLines
          IN  /\ lines # <<>>
              /\ IsHexLiteral(lines[Len(lines)])
              /\ HexLiteralValue(lines[Len(lines)]) = pos
              /\ ~ferr => HexLiteralValue(lines[Len(lines)]) = Len(stream)

C3_Witness ==
    /\ DumpDone /\ Formatted /\ ~ferr
    /\ bytes_per_line = 2
    /\ Len(stream) = 17
    /\ LET lines == OutLines
       IN  /\ Len(lines) = 10
           /\ BeforeTab(lines[9]) = <<"0", "x", "1", "0">>
           /\ lines[10] = <<"0", "x", "1", "1">>

(***************************************************************************)
(* C4: formatting enabled, chunk size k >= 1, L bytes read: the finished   *)
(* dump is exactly ceil(L / k) + 1 newline-terminated lines; for L = 0     *)
(* that is the one line "0x0".                                             *)
(***************************************************************************)
C4_LineCount ==
    (DumpDone /\ Formatted) =>
        /\ NewlineTerminated
        /\ Newlines = CeilDiv(pos, bytes_per_line) + 1
        /\ Len(OutLines) = Newlines
        /\ ~ferr => Newlines = CeilDiv(Len(stream), bytes_per_line) + 1
        /\ pos = 0 => out = <<"0", "x", "0", "\n">>

C4_Witness ==
    /\ DumpDone /\ Formatted /\ ~ferr
    /\ bytes_per_line = 4
    /\ Len(stream) = 9
    /\ Newlines = 4

(***************************************************************************)
(* C5: raw mode (formatting_enabled = 0), chunk size k >= 1: the dump's    *)
(* output holds only '0', '1' and newline: no tab, no offset, no spacing,  *)
(* no final summary line, and an empty input gives no output at all.       *)
(***************************************************************************)
C5_RawOnlyBits ==
    (Dumping /\ ~Formatted) =>
        /\ \A k \in 1..Len(out) : out[k] \in {"0", "1", "\n"}
        /\ Len(out) = 8 * pos + CeilDiv(pos, bytes_per_line)
        /\ Newlines = CeilDiv(pos, bytes_per_line)
        /\ pos = 0 => out = <<>>

C5_Witness ==
    /\ DumpDone /\ ~Formatted /\ ~ferr
    /\ bytes_per_line = 4
    /\ stream = <<104, 101, 108, 108, 111>>
    /\ Len(out) = 42
    /\ SubSeq(out, 1, 8) = <<"0", "1", "1", "0", "1", "0", "0", "0">>

(***************************************************************************)
(* C6: whatever arguments process_args has processed, the chunk size       *)
(* bytes_per_line handed to binary_dump is >= 1.                           *)
(***************************************************************************)
C6_ChunkSizePositive ==
    (pc \in {"main", "dump"}) => bytes_per_line >= 1

(***************************************************************************)
(* C7: a -n whose value is non-numeric or zero raises no error and leaves  *)
(* bytes_per_line at its previous value, and the loop goes on to the       *)
(* remaining arguments.                                                    *)
(***************************************************************************)
NonNumeric(v) == \A k \in 1..Len(v) : v[k] \notin
                    {"0", "1", "2", "3", "4", "5", "6", "7", "8", "9"}
ZeroLiteral(v) ==
    \/ v # <<>> /\ \A k \in 1..Len(v) : v[k] = "0"
    \/ /\ Len(v) >= 2
       /\ v[1] \in {"-", "+"}
       /\ \A k \in 2..Len(v) : v[k] = "0"

\* the step is the -n branch reading its value
TakesNValue == pc = "args" /\ i' = i + 2

C7_BadCountIgnored ==
    [][(TakesNValue /\ (NonNumeric(narg') \/ ZeroLiteral(narg'))) =>
          /\ bytes_per_line' = bytes_per_line
          /\ pc' = "args"
          /\ exit_code' = RUNNING
          /\ err' = err
          /\ out' = out]_vars

C7_Witness ==
    /\ pc = "args"
    /\ narg = <<"a", "b", "c">>
    /\ bytes_per_line = 2
    /\ i = 5 /\ i = argc

(***************************************************************************)
(* C8: every argument that begins with '-' and is not one of -n, -r, -raw, *)
(* -h, -help makes process_args terminate with a non-zero exit.            *)
(***************************************************************************)
RecognizedOptions ==
    { <<"-", "n">>, <<"-", "r">>, <<"-", "r", "a", "w">>,
      <<"-", "h">>, <<"-", "h", "e", "l", "p">> }

C8_UnknownOptionsRejected ==
    (arg.s # NULL /\ arg.s[1] = "-" /\ arg.s \notin RecognizedOptions) =>
        (pc = "exited" /\ exit_code = EXIT_FAILURE)

(***************************************************************************)
(* C9: a configuration error (unrecognised option, -n last with no value,  *)
(* a second file argument) ends the process with a non-zero exit during    *)
(* argument processing, before binary_dump runs: no stream is opened and   *)
(* nothing is written to the output, wherever in the list the error is.    *)
(***************************************************************************)
ConfigMessages ==
    { "error: unrecognised option \"-%s\"",
      "error: option \"-n\" given, but count not specified.",
      "error: more than one file specified" }

ConfigError == \E k \in 1..Len(err) : err[k][1] \in ConfigMessages

C9_ConfigErrorBeforeDump ==
    /\ ConfigError =>
          /\ pc = "exited"
          /\ exit_code = EXIT_FAILURE
          /\ file = "unset"
          /\ out = <<>>
    /\ (arg.k = 2 /\ CharAt(arg.s, 2) \notin {"h", "n", "r"}) => ConfigError

C9_Witness ==
    /\ ConfigError
    /\ pc = "exited"
    /\ bytes_per_line = 2
    /\ filename # NULL
    /\ i = 4
    /\ err[1][1] = "error: more than one file specified"

(***************************************************************************)
(* C10: a read error met in the middle of a dump comes out of the dump as  *)
(* a failure: the run does not print the final summary line and exit with  *)
(* code 0 as if the input had simply ended.                                *)
(***************************************************************************)
EndsWithSummary ==
    LET lines == OutLines
    IN  lines # <<>> /\ IsHexLiteral(lines[Len(lines)])

C10_ReadErrorReported ==
    (pc = "exited" /\ ferr /\ 0 < pos /\ pos < Len(stream)) =>
        ~(exit_code = EXIT_SUCCESS /\ err = <<>> /\ (Formatted => EndsWithSummary))

====
